---- MODULE Spec2Model ----
(***************************************************************************)
(* Model of the TripCodeChain client node (teamTripCode/tc_node_api).      *)
(*                                                                         *)
(*   P2pService        src/src/p2p/p2p.service.ts                          *)
(*       the seed-node connection: ping timer, reconnect timer, ping and   *)
(*       registration calls.  Specification SpecP2p (SpecP2pFair adds the  *)
(*       fairness of Node's timers and of HTTP calls that time out).       *)
(*   ValidatorsService src/unnamed/part_002 (validators.service.ts)        *)
(*   ValidatorsController src/unnamed/part_003                             *)
(*       the validator directory, its health sweep and the broadcasts.     *)
(*       Specifications SpecDir and SpecBroadcast.                         *)
(*                                                                         *)
(* The two services share no state; each specification leaves the other    *)
(* service's variables at their constructed values.                        *)
(*                                                                         *)
(* Every network call is a suspension point: an action is the code that    *)
(* runs between two suspension points (a timer callback up to its first    *)
(* await, or the continuation of an await up to the next one).             *)
(***************************************************************************)
EXTENDS Integers, Sequences, FiniteSets, TLC

(***************************************************************************)
(* Bounds of the model.                                                    *)
(***************************************************************************)
\* largest configured maxReconnectAttempts explored (the config is 1..this)
MaxAttemptsLimit == 2
\* reconnect ticks whose connectToSeedNode() is still in flight
MaxTicksInFlight == 2
\* ping-timer ticks whose pingSeedNode() is still in flight
MaxPingsInFlight == 1
\* last value of the clock read by new Date()
MaxClock == 1
\* refreshValidatorNodes() calls still awaiting the seed node
MaxRefreshesInFlight == 1

\* null of a timer handle; live handles are 1, 2, ...
NULL == 0
\* null of lastPingTime (no successful ping yet)
NoTime == -1

VARIABLES
  p2p,                  \* the fields of P2pService and Node's timer tables
  maxReconnectAttempts, \* config.maxReconnectAttempts
  initPc,               \* position of P2pService.onModuleInit
  pingsInFlight,        \* ping-timer callbacks awaiting GET /ping
  ticksPinging,         \* reconnect callbacks awaiting GET /ping
  ticksRegistering,     \* reconnect callbacks awaiting POST /register
  destroyed,            \* onModuleDestroy has run
  seedUp,               \* the seed node answers every call with success
  now,                  \* the clock
  ev,                   \* what the last step did (its name and result)
  validatorNodes,       \* ValidatorsService.validatorNodes
  healthCheckInterval,  \* ValidatorsService.healthCheckInterval
  valInitPc,            \* position of ValidatorsService.onModuleInit
  refreshesInFlight,    \* refreshValidatorNodes() calls awaiting the seed node
  sweep,                \* the health-check sweep in flight
  bc                    \* the broadcast in flight, or the last one returned

p2pVars == <<p2p, maxReconnectAttempts, initPc, pingsInFlight, ticksPinging,
             ticksRegistering, destroyed, seedUp>>

valVars == <<validatorNodes, healthCheckInterval, valInitPc,
             refreshesInFlight, sweep, bc>>

vars == <<p2pVars, valVars, now, ev>>

RegistrationStatus == {"NOT_REGISTERED", "REGISTERING", "REGISTERED", "FAILED"}

(***************************************************************************)
(* The seed node.  GET /ping: "200", another 2xx status ("204", which      *)
(* axios resolves), or "err" (a status axios rejects, a timeout, a         *)
(* refused connection).  POST /register: "201", "200", "204" or "err"      *)
(* (409, 500, network error).  A seed node that is up answers success.     *)
(***************************************************************************)
PingResponses(up) == IF up THEN {"200"} ELSE {"200", "204", "err"}

RegisterResponses(up) == IF up THEN {"201", "200"} ELSE {"201", "200", "204", "err"}

(***************************************************************************)
(* Node's setInterval hands out a handle no live timer has.                *)
(***************************************************************************)
NewTimer(active) ==
  CHOOSE i \in 1..(Cardinality(active) + 1) :
    i \notin active /\ \A j \in 1..(i - 1) : j \in active

(***************************************************************************)
(* P2pService, as functions of the service state s (the record p2p).       *)
(* activePingTimers / activeReconnectTimers are the runtime's live         *)
(* intervals; armAttempts counts the connectToSeedNode() calls made by     *)
(* ticks since startReconnectInterval() last ran, lastPing the outcome of   *)
(* the GET /ping that completed last ("none" before the first one), and    *)
(* stoppedAtLimit whether a tick has ever stopped the timer at the attempt *)
(* limit (history fields).                                                 *)
(***************************************************************************)
stopPingInterval(s) ==
  IF s.pingIntervalRef # NULL
    THEN [s EXCEPT !.activePingTimers = @ \ {s.pingIntervalRef},
                   !.pingIntervalRef = NULL]
    ELSE s

startPingInterval(s) ==
  LET s1 == stopPingInterval(s)
      id == NewTimer(s1.activePingTimers)
  IN  [s1 EXCEPT !.activePingTimers = @ \cup {id}, !.pingIntervalRef = id]

stopReconnectIntervalKeepsTimer(s) ==
  [s EXCEPT !.reconnectIntervalRef = NULL]

stopReconnectInterval(s) ==
  IF s.reconnectIntervalRef # NULL
    THEN [s EXCEPT !.activeReconnectTimers = @ \ {s.reconnectIntervalRef},
                   !.reconnectIntervalRef = NULL]
    ELSE s

startReconnectInterval(s) ==
  LET s1 == stopReconnectInterval(s)
      id == NewTimer(s1.activeReconnectTimers)
  IN  [s1 EXCEPT !.activeReconnectTimers = @ \cup {id},
                 !.reconnectIntervalRef = id,
                 !.armAttempts = 0]

handleConnectionFailureFlagOnly(s) ==
  [s EXCEPT !.connected = FALSE]

handleConnectionFailureResetsAttempts(s) ==
  LET s1 == [s EXCEPT !.connected = FALSE, !.reconnectAttempts = 0]
  IN  IF s1.reconnectIntervalRef = NULL THEN startReconnectInterval(s1) ELSE s1

handleConnectionFailure(s) ==
  LET s1 == [s EXCEPT !.connected = FALSE]
  IN  IF s1.reconnectIntervalRef = NULL THEN startReconnectInterval(s1) ELSE s1

\* the GET /ping of pingSeedNode() has been answered: HTTP 200 or not
pingCompleted(s, resp) ==
  [s EXCEPT !.lastPing = IF resp = "200" THEN "ok" ELSE "failed"]

pingSeedNodeKeepsFlagOnNon200(s, resp, t) ==
  IF resp = "200"
    THEN [s |-> [s EXCEPT !.connected = TRUE, !.lastPingTime = t], ret |-> TRUE]
    ELSE IF resp = "err"
      THEN [s |-> [s EXCEPT !.connected = FALSE], ret |-> FALSE]
      ELSE [s |-> s, ret |-> FALSE]

\* pingSeedNode() from the answer of GET /ping on: the new state and the
\* returned boolean.  The catch block clears connected and only then
\* tests it.
pingSeedNode(s, resp, t) ==
  IF resp = "200"
    THEN [s |-> [s EXCEPT !.connected = TRUE, !.lastPingTime = t], ret |-> TRUE]
    ELSE IF resp = "err"
      THEN LET s1 == [s EXCEPT !.connected = FALSE]
           IN  [s |-> IF s1.connected THEN handleConnectionFailure(s1) ELSE s1,
                ret |-> FALSE]
      ELSE [s |-> [s EXCEPT !.connected = FALSE], ret |-> FALSE]

\* registerWithSeedNode() up to its POST /register
registerStart(s) ==
  [s EXCEPT !.registrationStatus = "REGISTERING"]

registerWithSeedNodeStuckOnError(s, resp) ==
  IF resp \in {"201", "200"}
    THEN [s |-> [s EXCEPT !.registrationStatus = "REGISTERED"], ret |-> TRUE]
    ELSE IF resp = "err"
      THEN [s |-> s, ret |-> FALSE]
      ELSE [s |-> [s EXCEPT !.registrationStatus = "FAILED"], ret |-> FALSE]

\* registerWithSeedNode() from the answer of POST /register on
registerWithSeedNode(s, resp) ==
  IF resp \in {"201", "200"}
    THEN [s |-> [s EXCEPT !.registrationStatus = "REGISTERED"], ret |-> TRUE]
    ELSE [s |-> [s EXCEPT !.registrationStatus = "FAILED"], ret |-> FALSE]

\* connectToSeedNode() from the answer of its ping on: it either returns
\* false (done) or goes on to await the registration.
connectAfterPing(s, resp, t) ==
  LET p == pingSeedNode(s, resp, t)
  IN  IF ~p.ret
        THEN [s |-> handleConnectionFailure(p.s), done |-> TRUE, ret |-> FALSE]
        ELSE [s |-> registerStart(p.s), done |-> FALSE, ret |-> FALSE]

\* connectToSeedNode() from the answer of its registration on: the result
\* of registerWithSeedNode() is dropped and true is returned.
connectAfterRegister(s, resp) ==
  LET r == registerWithSeedNode(s, resp)
  IN  [s |-> r.s, done |-> TRUE, ret |-> TRUE, registered |-> r.ret]

attemptsExhaustedOffByTwo(s) ==
  s.reconnectAttempts > maxReconnectAttempts + 1

attemptsExhaustedOffByOne(s) ==
  s.reconnectAttempts > maxReconnectAttempts

\* the guard at the head of the reconnect callback
attemptsExhausted(s) ==
  s.reconnectAttempts >= maxReconnectAttempts

\* the reconnect callback after its connectToSeedNode() has returned
reconnectAfterConnect(s) ==
  IF s.connected
    THEN [stopReconnectInterval(s) EXCEPT !.reconnectAttempts = 0]
    ELSE s

\* ev: the name of the step just taken, what connectToSeedNode() returned
\* (ret) and how its registration went (reg: "ok", "failed", "none");
\* steps no claim singles out are Other.
Event(name, ret, reg) == [name |-> name, ret |-> ret, reg |-> reg]

Other == Event("other", FALSE, "none")

(***************************************************************************)
(* State after construction of P2pService.                                 *)
(***************************************************************************)
P2pConstructed ==
  [connected |-> FALSE,
   registrationStatus |-> "NOT_REGISTERED",
   lastPingTime |-> NoTime,
   pingIntervalRef |-> NULL,
   reconnectAttempts |-> 0,
   reconnectIntervalRef |-> NULL,
   activePingTimers |-> {},
   activeReconnectTimers |-> {},
   armAttempts |-> 0,
   lastPing |-> "none",
   stoppedAtLimit |-> FALSE]

P2pStart ==
  /\ p2p = P2pConstructed
  /\ maxReconnectAttempts \in 1..MaxAttemptsLimit
  /\ initPc = "idle"
  /\ pingsInFlight = 0
  /\ ticksPinging = 0
  /\ ticksRegistering = 0
  /\ destroyed = FALSE
  /\ seedUp \in BOOLEAN

(***************************************************************************)
(* P2pService.onModuleInit: connectToSeedNode(), then startPingInterval(). *)
(***************************************************************************)
OnModuleInit ==
  /\ initPc = "idle"
  /\ initPc' = "ping"
  /\ ev' = Event("onModuleInit", FALSE, "none")
  /\ UNCHANGED <<p2p, maxReconnectAttempts, pingsInFlight, ticksPinging,
                 ticksRegistering, destroyed, seedUp, now>>
  /\ UNCHANGED valVars

InitPingDone ==
  /\ initPc = "ping"
  /\ \E resp \in PingResponses(seedUp) :
       LET c == connectAfterPing(pingCompleted(p2p, resp), resp, now)
       IN  IF c.done
             THEN /\ p2p' = startPingInterval(c.s)
                  /\ initPc' = "done"
                  /\ ev' = Event("connectDone", c.ret, "none")
             ELSE /\ p2p' = c.s
                  /\ initPc' = "register"
                  /\ ev' = Event("registering", FALSE, "none")
  /\ UNCHANGED <<maxReconnectAttempts, pingsInFlight, ticksPinging,
                 ticksRegistering, destroyed, seedUp, now>>
  /\ UNCHANGED valVars

InitRegisterDone ==
  /\ initPc = "register"
  /\ \E resp \in RegisterResponses(seedUp) :
       LET c == connectAfterRegister(p2p, resp)
       IN  /\ p2p' = startPingInterval(c.s)
           /\ ev' = Event("connectDone", c.ret, IF c.registered THEN "ok" ELSE "failed")
  /\ initPc' = "done"
  /\ UNCHANGED <<maxReconnectAttempts, pingsInFlight, ticksPinging,
                 ticksRegistering, destroyed, seedUp, now>>
  /\ UNCHANGED valVars

(***************************************************************************)
(* The ping timer: each tick of a live ping interval calls pingSeedNode(). *)
(***************************************************************************)
PingTick ==
  /\ p2p.activePingTimers # {}
  /\ pingsInFlight < MaxPingsInFlight
  /\ pingsInFlight' = pingsInFlight + 1
  /\ ev' = Event("pingTick", FALSE, "none")
  /\ UNCHANGED <<p2p, maxReconnectAttempts, initPc, ticksPinging,
                 ticksRegistering, destroyed, seedUp, now>>
  /\ UNCHANGED valVars

PingTickDone ==
  /\ pingsInFlight > 0
  /\ \E resp \in PingResponses(seedUp) :
       LET p == pingSeedNode(pingCompleted(p2p, resp), resp, now)
       IN  /\ p2p' = p.s
           /\ ev' = Event("pingDone", p.ret, "none")
  /\ pingsInFlight' = pingsInFlight - 1
  /\ UNCHANGED <<maxReconnectAttempts, initPc, ticksPinging,
                 ticksRegistering, destroyed, seedUp, now>>
  /\ UNCHANGED valVars

(***************************************************************************)
(* The reconnect timer: a tick of a live reconnect interval either stops   *)
(* the timer (attempts exhausted) or counts an attempt and calls           *)
(* connectToSeedNode().                                                    *)
(***************************************************************************)
ReconnectTickStop ==
  /\ p2p.activeReconnectTimers # {}
  /\ attemptsExhausted(p2p)
  /\ p2p' = [stopReconnectInterval(p2p) EXCEPT !.stoppedAtLimit = TRUE]
  /\ ev' = Event("tickStop", FALSE, "none")
  /\ UNCHANGED <<maxReconnectAttempts, initPc, pingsInFlight, ticksPinging,
                 ticksRegistering, destroyed, seedUp, now>>
  /\ UNCHANGED valVars

ReconnectTickAttempt ==
  /\ p2p.activeReconnectTimers # {}
  /\ ~attemptsExhausted(p2p)
  /\ ticksPinging + ticksRegistering < MaxTicksInFlight
  /\ p2p' = [p2p EXCEPT !.reconnectAttempts = @ + 1, !.armAttempts = @ + 1]
  /\ ticksPinging' = ticksPinging + 1
  /\ ev' = Event("tickAttempt", FALSE, "none")
  /\ UNCHANGED <<maxReconnectAttempts, initPc, pingsInFlight,
                 ticksRegistering, destroyed, seedUp, now>>
  /\ UNCHANGED valVars

TickPingDone ==
  /\ ticksPinging > 0
  /\ \E resp \in PingResponses(seedUp) :
       LET c == connectAfterPing(pingCompleted(p2p, resp), resp, now)
       IN  IF c.done
             THEN /\ p2p' = reconnectAfterConnect(c.s)
                  /\ ticksRegistering' = ticksRegistering
                  /\ ev' = Event("tickConnectDone", c.ret, "none")
             ELSE /\ p2p' = c.s
                  /\ ticksRegistering' = ticksRegistering + 1
                  /\ ev' = Event("tickRegistering", FALSE, "none")
  /\ ticksPinging' = ticksPinging - 1
  /\ UNCHANGED <<maxReconnectAttempts, initPc, pingsInFlight, destroyed,
                 seedUp, now>>
  /\ UNCHANGED valVars

TickRegisterDone ==
  /\ ticksRegistering > 0
  /\ \E resp \in RegisterResponses(seedUp) :
       LET c == connectAfterRegister(p2p, resp)
       IN  /\ p2p' = reconnectAfterConnect(c.s)
           /\ ev' = Event("tickConnectDone", c.ret, IF c.registered THEN "ok" ELSE "failed")
  /\ ticksRegistering' = ticksRegistering - 1
  /\ UNCHANGED <<maxReconnectAttempts, initPc, pingsInFlight, ticksPinging,
                 destroyed, seedUp, now>>
  /\ UNCHANGED valVars

(***************************************************************************)
(* P2pService.onModuleDestroy, called once the application closes.         *)
(***************************************************************************)
OnModuleDestroy ==
  /\ initPc = "done"
  /\ ~destroyed
  /\ p2p' = stopReconnectInterval(stopPingInterval(p2p))
  /\ destroyed' = TRUE
  /\ ev' = Event("onModuleDestroy", FALSE, "none")
  /\ UNCHANGED <<maxReconnectAttempts, initPc, pingsInFlight, ticksPinging,
                 ticksRegistering, seedUp, now>>
  /\ UNCHANGED valVars

(***************************************************************************)
(* The environment: the seed node goes down or comes back, time passes.    *)
(***************************************************************************)
SeedChanges ==
  /\ seedUp' = ~seedUp
  /\ ev' = Other
  /\ UNCHANGED <<p2p, maxReconnectAttempts, initPc, pingsInFlight,
                 ticksPinging, ticksRegistering, destroyed, now>>
  /\ UNCHANGED valVars

AdvanceClock ==
  /\ now < MaxClock
  /\ now' = now + 1
  /\ ev' = Other
  /\ UNCHANGED <<p2p, maxReconnectAttempts, initPc, pingsInFlight,
                 ticksPinging, ticksRegistering, destroyed, seedUp>>
  /\ UNCHANGED valVars

(***************************************************************************)
(* ValidatorsService and ValidatorsController.                             *)
(*                                                                         *)
(* A validator record carries address, nodeType, lastSeen, isResponding    *)
(* (the optional version is never read and is left out).  The seed node    *)
(* keeps its registry in a fixed order and answers GET /nodes/active with  *)
(* any part of it, nodes of any type, with its own lastSeen stamps.        *)
(***************************************************************************)
Registry == <<"A", "B", "C">>

\* the stamp the seed node puts on a record (at or before this node's
\* first clock reading)
SeedStamp == 0

Picks ==
  {pk \in UNION {[1..k -> 1..Len(Registry)] : k \in 0..Len(Registry)} :
     \A i, j \in DOMAIN pk : i < j => pk[i] < pk[j]}

\* an entry of the seed node's answer: a validator, responding or not, or
\* a node of another type (dropped on load, so its flag is left at one value)
SeedEntries(address) ==
  {[address |-> address, nodeType |-> "validator", lastSeen |-> SeedStamp,
    isResponding |-> r] : r \in BOOLEAN}
    \cup {[address |-> address, nodeType |-> "full", lastSeen |-> SeedStamp,
           isResponding |-> TRUE]}

SeedNodeLists ==
  UNION {
    {l \in [1..Len(pk) -> UNION {SeedEntries(Registry[i]) : i \in DOMAIN Registry}] :
       \A i \in 1..Len(pk) : l[i].address = Registry[pk[i]]} :
    pk \in Picks}

\* GET /nodes/active: a list, or a failure (unreachable, error status)
SeedListResponses ==
  {[ok |-> TRUE, data |-> l] : l \in SeedNodeLists}
    \cup {[ok |-> FALSE, data |-> <<>>]}

\* GET <validator>/ping
ProbeResponses == {"200", "204", "err"}

\* POST/GET <validator><endpoint>: a 2xx answer, a timeout, or an error
DispatchResponses == {"2xx", "timeout", "err"}

isValidator(node) == node.nodeType = "validator"

loadValidatorNodesClearsOnError(nodes, resp) ==
  IF resp.ok
    THEN [nodes |-> SelectSeq(resp.data, isValidator),
          ret |-> SelectSeq(resp.data, isValidator)]
    ELSE [nodes |-> <<>>, ret |-> <<>>]

\* loadValidatorNodes() from the seed node's answer on: the new collection
\* and the returned list
loadValidatorNodes(nodes, resp) ==
  IF resp.ok
    THEN [nodes |-> SelectSeq(resp.data, isValidator),
          ret |-> SelectSeq(resp.data, isValidator)]
    ELSE [nodes |-> nodes, ret |-> <<>>]

getValidatorNodes(nodes) == nodes

isRespondingNodeNegated(node) == ~node.isResponding

isRespondingNode(node) == node.isResponding

getActiveValidatorNodesUnfiltered(nodes) ==
  nodes

getActiveValidatorNodes(nodes) ==
  SelectSeq(nodes, isRespondingNode)

\* pingValidator() from the answer of the probe on
pingValidator(resp) == resp = "200"

healthProbeTouchesLastSeen(node, isHealthy, t) ==
  [node EXCEPT !.isResponding = isHealthy, !.lastSeen = t]

\* the body of the map callback of checkValidatorNodesHealth() after its
\* await: the probed record with the probe's result applied
healthProbeApplied(node, isHealthy, t) ==
  [node EXCEPT !.isResponding = isHealthy,
               !.lastSeen = IF isHealthy THEN t ELSE @]

PendingPromise ==
  [status |-> "pending", value |-> [success |-> FALSE, validatorAddress |-> "none"]]

dispatchOutcomeAlwaysSuccess(address, resp) ==
  [status |-> "fulfilled",
   value |-> [success |-> TRUE, validatorAddress |-> address]]

\* the promise of one per-validator dispatch once its HTTP call has ended:
\* map() gives success, catchError() gives failure, nothing is rethrown
dispatchOutcome(address, resp) ==
  [status |-> "fulfilled",
   value |-> [success |-> (resp = "2xx"), validatorAddress |-> address]]

\* results.map(...) over the result of Promise.allSettled(promises)
settledResults(promises) ==
  [i \in 1..Len(promises) |->
     IF promises[i].status = "fulfilled"
       THEN promises[i].value
       ELSE [success |-> FALSE, validatorAddress |-> "unknown"]]

isSuccess(r) == r.success

\* the controller's reply to a broadcast
broadcastResponse(results) ==
  [results |-> results,
   successCount |-> Len(SelectSeq(results, isSuccess)),
   totalValidators |-> Len(results)]

\* bc: the broadcast in flight or the last one returned.  peers is the
\* snapshot of active validators it dispatches to, promises the per-peer
\* promises, http what each HTTP call did ("pending", "ok", "failed": kept
\* to state the claims), response the controller's reply once it returned,
\* overtaken whether the directory's active peers came to differ from the
\* snapshot while the broadcast was in flight (a history field).
NoBroadcast ==
  [active |-> FALSE, returned |-> FALSE, peers |-> <<>>, http |-> <<>>,
   promises |-> <<>>, response |-> broadcastResponse(<<>>),
   overtaken |-> FALSE]

\* the addresses of the active validators, in collection order
activeAddresses(nodes) ==
  [i \in 1..Len(getActiveValidatorNodes(nodes)) |->
     getActiveValidatorNodes(nodes)[i].address]

broadcastFollowsDirectory(b, nodes) ==
  IF b.active /\ activeAddresses(nodes) # b.peers
    THEN [b EXCEPT !.overtaken = TRUE,
                   !.peers = activeAddresses(nodes),
                   !.http = [i \in DOMAIN activeAddresses(nodes) |-> "pending"],
                   !.promises = [i \in DOMAIN activeAddresses(nodes) |-> PendingPromise]]
    ELSE b

\* the broadcast in flight after the collection became nodes
broadcastOvertaken(b, nodes) ==
  IF b.active /\ activeAddresses(nodes) # b.peers
    THEN [b EXCEPT !.overtaken = TRUE]
    ELSE b

settlesOnFirstFailure(promises) ==
  \/ \A j \in DOMAIN promises : promises[j].status # "pending"
  \/ \E j \in DOMAIN promises :
       promises[j].status # "pending" /\ ~promises[j].value.success

\* Promise.allSettled(promises) resolves once no promise is pending
allSettled(promises) ==
  \A j \in DOMAIN promises : promises[j].status # "pending"

\* sweep: the probes of the health-check sweep still in flight, and
\* whether the collection was replaced since the sweep captured its records
\* (stale); replaced and lateProbe are history fields: a load installed a
\* collection during this sweep, and a probe of it ended after that.
NoSweep ==
  [pending |-> {}, stale |-> FALSE, replaced |-> FALSE, lateProbe |-> FALSE]

ValStart ==
  /\ validatorNodes = <<>>
  /\ healthCheckInterval = NULL
  /\ valInitPc = "idle"
  /\ refreshesInFlight = 0
  /\ sweep = NoSweep
  /\ bc = NoBroadcast

\* a load that succeeded installed new record objects: a sweep in flight
\* keeps writing to the records it captured, no longer the collection's
sweepAfterLoadStillLive(sw, ok) ==
  sw

sweepAfterLoad(sw, ok) ==
  IF ok /\ sw.pending # {} THEN [sw EXCEPT !.stale = TRUE] ELSE sw

LoadEvent(resp) ==
  IF resp.ok THEN Other ELSE Event("loadFailed", FALSE, "none")

(***************************************************************************)
(* ValidatorsService.onModuleInit: loadValidatorNodes(), then              *)
(* startHealthCheckInterval().  The controller serves requests once the    *)
(* module is initialised.                                                  *)
(***************************************************************************)
ValOnModuleInit ==
  /\ valInitPc = "idle"
  /\ valInitPc' = "loading"
  /\ ev' = Other
  /\ UNCHANGED <<validatorNodes, healthCheckInterval, refreshesInFlight, sweep, bc>>
  /\ UNCHANGED <<p2pVars, now>>

InitLoadDoneWith(resp) ==
  /\ valInitPc = "loading"
  /\ validatorNodes' = loadValidatorNodes(validatorNodes, resp).nodes
  /\ healthCheckInterval' = 1
  /\ valInitPc' = "done"
  /\ ev' = LoadEvent(resp)
  /\ UNCHANGED <<refreshesInFlight, sweep, bc>>
  /\ UNCHANGED <<p2pVars, now>>

InitLoadDone == \E resp \in SeedListResponses : InitLoadDoneWith(resp)

(***************************************************************************)
(* POST /validators/refresh: refreshValidatorNodes(); the reply carries    *)
(* the returned list and its length.                                       *)
(***************************************************************************)
refreshResponse(validators) ==
  [validators |-> validators, total |-> Len(validators)]

RefreshStart ==
  /\ valInitPc = "done"
  /\ refreshesInFlight < MaxRefreshesInFlight
  /\ refreshesInFlight' = refreshesInFlight + 1
  /\ ev' = Other
  /\ UNCHANGED <<validatorNodes, healthCheckInterval, valInitPc, sweep, bc>>
  /\ UNCHANGED <<p2pVars, now>>

RefreshDoneWith(resp) ==
  /\ refreshesInFlight > 0
  /\ validatorNodes' = loadValidatorNodes(validatorNodes, resp).nodes
  /\ sweep' = [sweepAfterLoad(sweep, resp.ok) EXCEPT
                 !.replaced = @ \/ (resp.ok /\ sweep.pending # {})]
  /\ bc' = broadcastOvertaken(bc, validatorNodes')
  /\ refreshesInFlight' = refreshesInFlight - 1
  /\ ev' = LoadEvent(resp)
  /\ UNCHANGED <<healthCheckInterval, valInitPc>>
  /\ UNCHANGED <<p2pVars, now>>

RefreshDone == \E resp \in SeedListResponses : RefreshDoneWith(resp)

(***************************************************************************)
(* The health-check timer: one probe per record of the collection, all in  *)
(* flight at once.  A probe ends within its 5000 ms timeout and the timer  *)
(* fires every 60000 ms, so a sweep has ended when the next one starts.    *)
(***************************************************************************)
HealthTick ==
  /\ healthCheckInterval # NULL
  /\ sweep.pending = {}
  /\ sweep' = [NoSweep EXCEPT !.pending = DOMAIN validatorNodes]
  /\ ev' = Other
  /\ UNCHANGED <<validatorNodes, healthCheckInterval, valInitPc, refreshesInFlight, bc>>
  /\ UNCHANGED <<p2pVars, now>>

\* the probe of the i-th captured record ends with answer resp
ProbeDoneWith(i, resp) ==
  /\ i \in sweep.pending
  /\ validatorNodes' =
       IF sweep.stale
         THEN validatorNodes
         ELSE [validatorNodes EXCEPT
                 ![i] = healthProbeApplied(@, pingValidator(resp), now)]
  /\ sweep' = IF sweep.pending = {i}
                THEN NoSweep
                ELSE [sweep EXCEPT !.pending = @ \ {i},
                                   !.lateProbe = @ \/ sweep.replaced]
  /\ bc' = broadcastOvertaken(bc, validatorNodes')
  /\ ev' = Other
  /\ UNCHANGED <<healthCheckInterval, valInitPc, refreshesInFlight>>
  /\ UNCHANGED <<p2pVars, now>>

ProbeDone ==
  \E i \in sweep.pending, resp \in ProbeResponses : ProbeDoneWith(i, resp)

(***************************************************************************)
(* The controller's read requests.  GET /validators/ping/:address awaits   *)
(* one probe and touches no state, so it is one step.                      *)
(***************************************************************************)
getValidatorsResponse(nodes) ==
  [validators |-> getValidatorNodes(nodes),
   total |-> Len(getValidatorNodes(nodes)),
   active |-> Len(getActiveValidatorNodes(nodes))]

getActiveValidatorsResponse(nodes) ==
  [validators |-> getActiveValidatorNodes(nodes),
   count |-> Len(getActiveValidatorNodes(nodes))]

pingValidatorResponse(address, resp) ==
  [address |-> address, responding |-> pingValidator(resp)]

\* the addresses a client may name: the registry's and one outside it
PingAddresses == {Registry[i] : i \in DOMAIN Registry} \cup {"Z"}

adHocPingMarksRecord(nodes, address, isResponding) ==
  [i \in DOMAIN nodes |->
     IF nodes[i].address = address
       THEN [nodes[i] EXCEPT !.isResponding = isResponding]
       ELSE nodes[i]]

\* the collection after pingValidator(address): the method and the
\* controller read and write no field of the service
adHocPingApplied(nodes, address, isResponding) ==
  nodes

CtlGetValidators ==
  /\ valInitPc = "done"
  /\ ev' = Other
  /\ UNCHANGED <<valVars, p2pVars, now>>

CtlGetActiveValidators ==
  /\ valInitPc = "done"
  /\ ev' = Other
  /\ UNCHANGED <<valVars, p2pVars, now>>

CtlPingValidatorWith(address, resp) ==
  /\ valInitPc = "done"
  /\ validatorNodes' =
       adHocPingApplied(validatorNodes, address,
                        pingValidatorResponse(address, resp).responding)
  /\ ev' = Event("adHocPing", pingValidatorResponse(address, resp).responding, "none")
  /\ UNCHANGED <<healthCheckInterval, valInitPc, refreshesInFlight, sweep, bc>>
  /\ UNCHANGED <<p2pVars, now>>

CtlPingValidator ==
  \E address \in PingAddresses, resp \in ProbeResponses :
    CtlPingValidatorWith(address, resp)

(***************************************************************************)
(* The broadcasts: sendTransaction, sendBatchTransactions,                 *)
(* sendCriticalProcess, getBlockchainStatus, getMempoolStatus.  They       *)
(* differ in endpoint, payload and timeout only, so they share one         *)
(* definition.  A broadcast keeps no state of the service: one in flight   *)
(* stands for any number of them.                                          *)
(***************************************************************************)
StartBroadcast ==
  /\ valInitPc = "done"
  /\ ~bc.active
  /\ LET activeValidators == getActiveValidatorNodes(validatorNodes)
         n == Len(activeValidators)
     IN  IF n = 0
           THEN bc' = [NoBroadcast EXCEPT !.returned = TRUE]
           ELSE bc' = [active |-> TRUE,
                       returned |-> FALSE,
                       peers |-> [i \in 1..n |-> activeValidators[i].address],
                       http |-> [i \in 1..n |-> "pending"],
                       promises |-> [i \in 1..n |-> PendingPromise],
                       response |-> broadcastResponse(<<>>),
                       overtaken |-> FALSE]
  /\ ev' = Other
  /\ UNCHANGED <<validatorNodes, healthCheckInterval, valInitPc, refreshesInFlight, sweep>>
  /\ UNCHANGED <<p2pVars, now>>

SendTransaction == StartBroadcast

SendBatchTransactions == StartBroadcast

SendCriticalProcess == StartBroadcast

GetBlockchainStatus == StartBroadcast

GetMempoolStatus == StartBroadcast

\* the dispatch to the i-th peer ends with answer resp; once all have
\* ended, Promise.allSettled resolves and the broadcast returns
DispatchDoneWith(i, resp) ==
  /\ bc.active
  /\ i \in DOMAIN bc.peers
  /\ bc.http[i] = "pending"
  /\ LET promises == [bc.promises EXCEPT ![i] = dispatchOutcome(bc.peers[i], resp)]
         settled == allSettled(promises)
     IN  bc' = [bc EXCEPT
                  !.promises = promises,
                  !.http[i] = IF resp = "2xx" THEN "ok" ELSE "failed",
                  !.active = ~settled,
                  !.returned = settled,
                  !.response = IF settled
                                 THEN broadcastResponse(settledResults(promises))
                                 ELSE @]
  /\ ev' = Other
  /\ UNCHANGED <<validatorNodes, healthCheckInterval, valInitPc, refreshesInFlight, sweep>>
  /\ UNCHANGED <<p2pVars, now>>

DispatchDone ==
  \E i \in DOMAIN bc.peers, resp \in DispatchResponses : DispatchDoneWith(i, resp)

(***************************************************************************)
(* Specifications.                                                         *)
(***************************************************************************)
InitP2p ==
  /\ P2pStart
  /\ ValStart
  /\ now = 0
  /\ ev = Other

NextP2p ==
  \/ OnModuleInit
  \/ InitPingDone
  \/ InitRegisterDone
  \/ PingTick
  \/ PingTickDone
  \/ ReconnectTickStop
  \/ ReconnectTickAttempt
  \/ TickPingDone
  \/ TickRegisterDone
  \/ OnModuleDestroy
  \/ SeedChanges
  \/ AdvanceClock

SpecP2p == InitP2p /\ [][NextP2p]_vars

\* Node fires the callbacks of live intervals, and every HTTP call ends
\* (the HttpModule is registered with a 5000 ms timeout).
SpecP2pFair ==
  /\ SpecP2p
  /\ WF_vars(OnModuleInit)
  /\ WF_vars(InitPingDone)
  /\ WF_vars(InitRegisterDone)
  /\ WF_vars(PingTick)
  /\ WF_vars(PingTickDone)
  /\ WF_vars(ReconnectTickStop)
  /\ WF_vars(ReconnectTickAttempt)
  /\ WF_vars(TickPingDone)
  /\ WF_vars(TickRegisterDone)

P2pIdle ==
  /\ p2p = P2pConstructed
  /\ maxReconnectAttempts = 1
  /\ initPc = "idle"
  /\ pingsInFlight = 0
  /\ ticksPinging = 0
  /\ ticksRegistering = 0
  /\ destroyed = FALSE
  /\ seedUp = TRUE

InitVal ==
  /\ P2pIdle
  /\ ValStart
  /\ now = 0
  /\ ev = Other

\* the validator directory: loads, refreshes, health sweeps, read requests
NextDir ==
  \/ ValOnModuleInit
  \/ InitLoadDone
  \/ RefreshStart
  \/ RefreshDone
  \/ HealthTick
  \/ ProbeDone
  \/ CtlGetValidators
  \/ CtlGetActiveValidators
  \/ CtlPingValidator
  \/ AdvanceClock

SpecDir == InitVal /\ [][NextDir]_vars

\* the broadcasts, with the directory changing under them
NextBroadcast ==
  \/ ValOnModuleInit
  \/ InitLoadDone
  \/ RefreshStart
  \/ RefreshDone
  \/ HealthTick
  \/ ProbeDone
  \/ SendTransaction
  \/ SendBatchTransactions
  \/ SendCriticalProcess
  \/ GetBlockchainStatus
  \/ GetMempoolStatus
  \/ DispatchDone

SpecBroadcast == InitVal /\ [][NextBroadcast]_vars

\* the broadcasts over a directory loaded once.  Every dispatch ends: each
\* HTTP call is made with a timeout (10000 to 30000 ms).
NextSettle ==
  \/ ValOnModuleInit
  \/ InitLoadDone
  \/ SendTransaction
  \/ SendBatchTransactions
  \/ SendCriticalProcess
  \/ GetBlockchainStatus
  \/ GetMempoolStatus
  \/ DispatchDone

SpecSettle ==
  /\ InitVal
  /\ [][NextSettle]_vars
  /\ WF_vars(DispatchDone)

(***************************************************************************)
(* Claims about P2pService (checked under SpecP2p unless stated).          *)
(***************************************************************************)

\* C1: for every maxReconnectAttempts = N >= 1, the ticks of one arming of
\* the reconnect timer make at most N connectToSeedNode() calls; a tick that
\* finds reconnectAttempts >= N stops the timer and starts no attempt; and
\* while no reconnect timer is live no tick starts an attempt.
ReconnectStopsAtLimit ==
  [][ /\ p2p'.armAttempts <= maxReconnectAttempts
      /\ (/\ p2p.activeReconnectTimers # {}
          /\ p2p.reconnectAttempts >= maxReconnectAttempts
          /\ ev'.name \in {"tickStop", "tickAttempt"})
            => /\ ev'.name = "tickStop"
               /\ p2p'.reconnectIntervalRef = NULL
               /\ p2p'.activeReconnectTimers = {}
               /\ ticksPinging' = ticksPinging
               /\ ticksRegistering' = ticksRegistering
      /\ p2p.activeReconnectTimers = {} => ev'.name # "tickAttempt"
    ]_vars

\* C1 witness: the timer has just stopped itself after N = MaxAttemptsLimit
\* attempts of this arming, none of which connected.
ReconnectStoppedAtLimit ==
  /\ ev.name = "tickStop"
  /\ maxReconnectAttempts = MaxAttemptsLimit
  /\ p2p.armAttempts = maxReconnectAttempts
  /\ p2p.reconnectAttempts = maxReconnectAttempts
  /\ p2p.reconnectIntervalRef = NULL
  /\ ~p2p.connected

\* C2 (as claimed): whenever connectToSeedNode() returns true while a
\* reconnect timer is running, the timer is stopped and reconnectAttempts
\* is 0 afterwards.
ConnectSuccessStopsReconnect ==
  [][ (/\ ev'.name \in {"connectDone", "tickConnectDone"}
       /\ ev'.ret
       /\ p2p.activeReconnectTimers # {})
        => /\ p2p'.reconnectIntervalRef = NULL
           /\ p2p'.activeReconnectTimers = {}
           /\ p2p'.reconnectAttempts = 0
    ]_vars

\* C3 (as claimed): when connectToSeedNode() completes after a registration
\* that did not succeed, registrationStatus is FAILED, connected is false
\* and a reconnect timer is active.
RegistrationFailureHandled ==
  [][ (/\ ev'.name \in {"connectDone", "tickConnectDone"}
       /\ ev'.reg = "failed")
        => /\ p2p'.registrationStatus = "FAILED"
           /\ ~p2p'.connected
           /\ p2p'.reconnectIntervalRef # NULL
           /\ p2p'.activeReconnectTimers # {}
    ]_vars

\* C4 (as claimed, under SpecP2pFair): from any state on, if the seed node
\* stays up (and the service is not shut down), the node eventually is
\* connected and REGISTERED.
RecoversFromOutage ==
  []([](seedUp /\ ~destroyed)
       => <>(p2p.connected /\ p2p.registrationStatus = "REGISTERED"))

\* C10 (as claimed): in every state of the running service in which no
\* reconnect timer is active and no reconnect tick is executing,
\* reconnectAttempts = 0.
AttemptsZeroWhenIdle ==
  (/\ ~destroyed
   /\ p2p.reconnectIntervalRef = NULL
   /\ p2p.activeReconnectTimers = {}
   /\ ticksPinging + ticksRegistering = 0)
    => p2p.reconnectAttempts = 0

(***************************************************************************)
(* Claims about ValidatorsService and ValidatorsController.                *)
(***************************************************************************)

\* C5 (SpecBroadcast): a broadcast over a non-empty list of active peers
\* returns, whatever the order in which its dispatches ended, one outcome
\* per peer, the i-th carrying the i-th peer's address and success = true
\* iff that peer's HTTP call succeeded; the reported success count is the
\* number of successful outcomes and the total the number of peers.
BroadcastOutcomesInPeerOrder ==
  (bc.returned /\ Len(bc.peers) > 0)
    => /\ Len(bc.response.results) = Len(bc.peers)
       /\ \A i \in DOMAIN bc.peers :
            /\ bc.response.results[i].validatorAddress = bc.peers[i]
            /\ bc.response.results[i].success = (bc.http[i] = "ok")
       /\ bc.response.successCount =
            Cardinality({i \in DOMAIN bc.peers : bc.http[i] = "ok"})
       /\ bc.response.totalValidators = Len(bc.peers)

\* C5 witness: the broadcast to [A, B, C] returned with A and C succeeded
\* and B failed, and reports 2 successes.
BroadcastABCReturned ==
  /\ bc.returned
  /\ bc.peers = <<"A", "B", "C">>
  /\ bc.http = <<"ok", "failed", "ok">>
  /\ bc.response.successCount = 2

\* C6 (SpecBroadcast): a broadcast started while no validator is responding
\* returns at once an empty outcome list with success count 0 and total 0,
\* and dispatches nothing.
EmptyBroadcastReturnsEmpty ==
  [][ (/\ StartBroadcast
       /\ \A i \in DOMAIN validatorNodes : ~validatorNodes[i].isResponding)
        => /\ bc'.returned
           /\ ~bc'.active
           /\ bc'.response = [results |-> <<>>, successCount |-> 0,
                              totalValidators |-> 0]
           /\ bc'.http = <<>>
           /\ bc'.promises = <<>>
    ]_vars

\* C6 witness: validators are known, none responds, and a broadcast has
\* returned without a peer.
EmptyBroadcastReturned ==
  /\ Len(validatorNodes) > 0
  /\ \A i \in DOMAIN validatorNodes : ~validatorNodes[i].isResponding
  /\ bc.returned
  /\ bc.peers = <<>>
  /\ bc.response.totalValidators = 0

\* C7 (SpecDir): a loadValidatorNodes() or refreshValidatorNodes() call that
\* fails leaves the cached collection as it was.
FailedLoadKeepsCollection ==
  [][ (\/ InitLoadDoneWith([ok |-> FALSE, data |-> <<>>])
       \/ RefreshDoneWith([ok |-> FALSE, data |-> <<>>]))
        => validatorNodes' = validatorNodes
    ]_vars

\* C7 witness: a refresh has just failed over a collection of three records
\* of which one is responding with a lastSeen the health check refreshed
\* and one is not responding.
FailedRefreshOverCollection ==
  /\ ev.name = "loadFailed"
  /\ Len(validatorNodes) = 3
  /\ \E i, j \in DOMAIN validatorNodes :
       /\ validatorNodes[i].isResponding
       /\ validatorNodes[i].lastSeen > SeedStamp
       /\ ~validatorNodes[j].isResponding

\* C8 (SpecDir): getActiveValidatorNodes() is a subsequence of
\* getValidatorNodes() that holds exactly the records with isResponding.
ActiveAreExactlyResponding ==
  LET all == getValidatorNodes(validatorNodes)
      act == getActiveValidatorNodes(validatorNodes)
  IN  \E f \in [DOMAIN act -> DOMAIN all] :
        /\ \A i, j \in DOMAIN act : i < j => f[i] < f[j]
        /\ \A i \in DOMAIN act : act[i] = all[f[i]]
        /\ {f[i] : i \in DOMAIN act} = {j \in DOMAIN all : all[j].isResponding}
        /\ getActiveValidatorsResponse(validatorNodes).validators = act
        /\ getActiveValidatorsResponse(validatorNodes).count = Cardinality(DOMAIN act)

\* C8 witness: three records, the middle one not responding, and the
\* active list is the first and the third.
ActiveSkipsMiddle ==
  /\ valInitPc = "done"
  /\ Len(validatorNodes) = 3
  /\ validatorNodes[1].isResponding
  /\ ~validatorNodes[2].isResponding
  /\ validatorNodes[3].isResponding
  /\ getActiveValidatorNodes(validatorNodes) = <<validatorNodes[1], validatorNodes[3]>>

\* C9 (SpecDir): a probe of the health sweep changes the probed record
\* only: the record ends not responding with its lastSeen unchanged when the
\* probe failed, responding with lastSeen = now when it succeeded; the other
\* records stay as they are and the sweep adds or removes no record.
ProbeChangesOnlyProbedRecord ==
  [][ /\ \A i \in DOMAIN Registry, resp \in ProbeResponses :
           ProbeDoneWith(i, resp)
             => /\ DOMAIN validatorNodes' = DOMAIN validatorNodes
                /\ ~sweep.stale
                     => /\ \A j \in DOMAIN validatorNodes \ {i} :
                             validatorNodes'[j] = validatorNodes[j]
                        /\ validatorNodes'[i].address = validatorNodes[i].address
                        /\ validatorNodes'[i].nodeType = validatorNodes[i].nodeType
                        /\ IF resp = "200"
                             THEN /\ validatorNodes'[i].isResponding
                                  /\ validatorNodes'[i].lastSeen = now
                             ELSE /\ ~validatorNodes'[i].isResponding
                                  /\ validatorNodes'[i].lastSeen = validatorNodes[i].lastSeen
      /\ HealthTick => validatorNodes' = validatorNodes
    ]_vars

\* C9 witness: a sweep over three validators has ended at time 1; one
\* record is not responding and kept the seed node's lastSeen, the other two
\* respond with lastSeen refreshed to 1.
SweepOfThreeOneFailed ==
  /\ sweep.pending = {}
  /\ now = 1
  /\ Len(validatorNodes) = 3
  /\ \E i \in DOMAIN validatorNodes :
       /\ ~validatorNodes[i].isResponding
       /\ validatorNodes[i].lastSeen = SeedStamp
       /\ \A j \in DOMAIN validatorNodes \ {i} :
            /\ validatorNodes[j].isResponding
            /\ validatorNodes[j].lastSeen = now

(***************************************************************************)
(* Further claims about P2pService (SpecP2p).                              *)
(***************************************************************************)

\* C11: reconnectAttempts is always within 0 .. maxReconnectAttempts + 1,
\* also while the connect attempts of several reconnect ticks overlap, and
\* it grows only by one, in a tick of a live reconnect timer.
AttemptsBoundedAndTickOnly ==
  /\ [](p2p.reconnectAttempts \in 0..(maxReconnectAttempts + 1))
  /\ [][ p2p'.reconnectAttempts > p2p.reconnectAttempts
           => /\ ev'.name = "tickAttempt"
              /\ p2p.activeReconnectTimers # {}
              /\ p2p.reconnectIntervalRef \in p2p.activeReconnectTimers
              /\ p2p'.reconnectAttempts = p2p.reconnectAttempts + 1
        ]_vars

\* C11 witness: a tick has just counted the last allowed attempt while the
\* connect attempt of an earlier tick is still in flight.
TicksOverlapAtLimit ==
  /\ ev.name = "tickAttempt"
  /\ maxReconnectAttempts = MaxAttemptsLimit
  /\ p2p.reconnectAttempts = maxReconnectAttempts
  /\ ticksPinging + ticksRegistering >= 2

\* C12: whenever no ping is in flight, connected is true iff the GET /ping
\* that completed last was answered with HTTP 200, whoever issued it (the
\* ping timer, onModuleInit's connectToSeedNode(), or a reconnect tick).
ConnectedIffLastPingOk ==
  (/\ pingsInFlight = 0
   /\ ticksPinging = 0
   /\ initPc # "ping")
    => (p2p.connected <=> p2p.lastPing = "ok")

\* C12 witness: the node was connected (a ping has succeeded), the ping
\* timer's ping has just failed and no ping is in flight.
PingTimerPingFailedAfterSuccess ==
  /\ ev.name = "pingDone"
  /\ p2p.lastPing = "failed"
  /\ p2p.lastPingTime # NoTime
  /\ ~p2p.connected
  /\ pingsInFlight = 0
  /\ ticksPinging = 0
  /\ initPc = "done"

\* C13 (as claimed): a registration answered with HTTP 201 or 200 leaves
\* registrationStatus = REGISTERED and connected = true when the enclosing
\* connectToSeedNode() completes; any other answer leaves registrationStatus
\* = FAILED; and registrationStatus is REGISTERING only while a
\* registration call is in flight.
RegistrationOutcomeMapping ==
  /\ [](p2p.registrationStatus = "REGISTERING"
          => (ticksRegistering > 0 \/ initPc = "register"))
  /\ [][ ev'.name \in {"connectDone", "tickConnectDone"}
           => /\ ev'.reg = "ok" => (/\ p2p'.registrationStatus = "REGISTERED"
                                   /\ p2p'.connected)
              /\ ev'.reg = "failed" => p2p'.registrationStatus = "FAILED"
        ]_vars

\* C14 (as claimed): whenever a ping that fails takes the running service
\* from connected to not connected, a reconnect timer is active once that
\* ping has completed, also for a ping issued by the ping timer.
PingFailureArmsReconnect ==
  [][ (/\ ~destroyed
       /\ ev'.name \in {"pingDone", "connectDone", "tickConnectDone"}
       /\ p2p'.lastPing = "failed"
       /\ p2p.connected
       /\ ~p2p'.connected)
        => /\ p2p'.reconnectIntervalRef # NULL
           /\ p2p'.reconnectIntervalRef \in p2p'.activeReconnectTimers
    ]_vars

\* C15 (as claimed): a reconnect timer of the running service that was
\* armed after an earlier timer had stopped itself at the attempt limit
\* makes at least one connectToSeedNode() call before it stops itself.
RearmedTimerAttemptsAgain ==
  [][ (/\ ~destroyed
       /\ p2p.stoppedAtLimit
       /\ ev'.name = "tickStop")
        => p2p.armAttempts >= 1
    ]_vars

\* C16 (as claimed): connectToSeedNode() returns true only if its ping
\* succeeded and its registration ended with registrationStatus =
\* REGISTERED.
ConnectTrueOnlyIfRegistered ==
  [][ (/\ ev'.name \in {"connectDone", "tickConnectDone"}
       /\ ev'.ret)
        => /\ ev'.reg = "ok"
           /\ p2p'.registrationStatus = "REGISTERED"
    ]_vars

\* C17: when the ping made by connectToSeedNode() does not succeed,
\* connectToSeedNode() returns false in that step with connected = false and
\* the reconnect timer active, starts no registration, and leaves
\* registrationStatus as it was.
ConnectPingFailureHandled ==
  [][ (/\ ev'.name \in {"connectDone", "registering",
                         "tickConnectDone", "tickRegistering"}
       /\ ev'.reg = "none"
       /\ p2p'.lastPing = "failed")
        => /\ ev'.name \in {"connectDone", "tickConnectDone"}
           /\ ~ev'.ret
           /\ ~p2p'.connected
           /\ p2p'.reconnectIntervalRef # NULL
           /\ p2p'.reconnectIntervalRef \in p2p'.activeReconnectTimers
           /\ ticksRegistering' = ticksRegistering
           /\ initPc' # "register"
           /\ p2p'.registrationStatus = p2p.registrationStatus
    ]_vars

\* C17 witness: the connect attempt of a reconnect tick has just failed at
\* its ping after an overlapping tick had registered and stopped the timer:
\* the timer is armed again and registrationStatus is still REGISTERED.
TickConnectFailedAtPing ==
  /\ ev = Event("tickConnectDone", FALSE, "none")
  /\ p2p.lastPing = "failed"
  /\ p2p.registrationStatus = "REGISTERED"
  /\ ~p2p.connected
  /\ p2p.reconnectIntervalRef # NULL
  /\ p2p.armAttempts = 0

\* C18: in every reachable state at most one ping timer and at most one
\* reconnect timer is live, and a live timer is the one the service holds
\* the handle of (a timer that was replaced or stopped is not live, so it
\* fires no tick).
AtMostOneTimerEach ==
  /\ Cardinality(p2p.activePingTimers) <= 1
  /\ Cardinality(p2p.activeReconnectTimers) <= 1
  /\ p2p.activePingTimers =
       (IF p2p.pingIntervalRef = NULL THEN {} ELSE {p2p.pingIntervalRef})
  /\ p2p.activeReconnectTimers =
       (IF p2p.reconnectIntervalRef = NULL THEN {} ELSE {p2p.reconnectIntervalRef})

\* C18 witness: the ping timer runs and the reconnect timer runs again
\* after an earlier reconnect timer had been stopped.
ReconnectTimerRunsAgain ==
  /\ p2p.stoppedAtLimit
  /\ p2p.reconnectIntervalRef # NULL
  /\ p2p.activeReconnectTimers # {}
  /\ p2p.pingIntervalRef # NULL
  /\ p2p.activePingTimers # {}

\* C19: handleConnectionFailure() called while a reconnect timer is active
\* only sets connected = false (the timer instance, reconnectAttempts,
\* registrationStatus and lastPingTime stay as they are), and calling it
\* twice in a row leaves the state one call leaves; so a connect attempt
\* that fails at its ping while the timer runs changes nothing else.
FailureHandlingIdempotent ==
  /\ [](/\ p2p.reconnectIntervalRef # NULL
            => handleConnectionFailure(p2p) = [p2p EXCEPT !.connected = FALSE]
         /\ handleConnectionFailure(handleConnectionFailure(p2p))
              = handleConnectionFailure(p2p))
  /\ [][ (/\ ev' = Event("tickConnectDone", FALSE, "none")
           /\ p2p.reconnectIntervalRef # NULL)
            => /\ ~p2p'.connected
               /\ p2p'.reconnectIntervalRef = p2p.reconnectIntervalRef
               /\ p2p'.activeReconnectTimers = p2p.activeReconnectTimers
               /\ p2p'.reconnectAttempts = p2p.reconnectAttempts
               /\ p2p'.armAttempts = p2p.armAttempts
               /\ p2p'.registrationStatus = p2p.registrationStatus
               /\ p2p'.lastPingTime = p2p.lastPingTime
        ]_vars

\* C19 witness: a connect attempt of the running reconnect timer has just
\* failed at its ping, after a ping of the ping timer had succeeded; the
\* timer of this arming still runs with its attempts counted.
FailureHandledWhileTimerRuns ==
  /\ ev = Event("tickConnectDone", FALSE, "none")
  /\ p2p.reconnectIntervalRef # NULL
  /\ p2p.armAttempts >= 1
  /\ p2p.reconnectAttempts >= 1
  /\ p2p.lastPingTime # NoTime
  /\ ~p2p.connected

\* C20 (as claimed): once onModuleDestroy has run, no ping timer and no
\* reconnect timer is active (so no tick fires), whatever calls were in
\* flight at that moment and however they complete.
NoTimerAfterShutdown ==
  destroyed
    => /\ p2p.pingIntervalRef = NULL
       /\ p2p.activePingTimers = {}
       /\ p2p.reconnectIntervalRef = NULL
       /\ p2p.activeReconnectTimers = {}

(***************************************************************************)
(* Further claims about ValidatorsService and ValidatorsController.        *)
(***************************************************************************)

\* C21 (SpecSettle): a broadcast in flight still has a dispatch pending and
\* a broadcast that returned has none (it returns exactly when the last
\* dispatch ends); the end of one dispatch, failed or not, changes no other
\* peer's outcome; the returned outcomes are the per-peer outcomes; and a
\* broadcast in flight eventually returns.
BroadcastWaitsForAllDispatches ==
  /\ [](bc.active => \E i \in DOMAIN bc.peers : bc.http[i] = "pending")
  /\ [](bc.returned
          => /\ \A i \in DOMAIN bc.peers : bc.http[i] # "pending"
             /\ Len(bc.response.results) = Len(bc.peers)
             /\ \A i \in DOMAIN bc.peers :
                  /\ bc.response.results[i] = bc.promises[i].value
                  /\ bc.response.results[i].validatorAddress = bc.peers[i])
  /\ [][ \A i \in DOMAIN bc.peers, resp \in DispatchResponses :
            DispatchDoneWith(i, resp)
              => /\ bc'.peers = bc.peers
                 /\ \A j \in DOMAIN bc.peers \ {i} :
                      /\ bc'.promises[j] = bc.promises[j]
                      /\ bc'.http[j] = bc.http[j]
        ]_vars
  /\ (bc.active ~> bc.returned)

\* C21 witness: a broadcast to three peers has returned; the first peer's
\* dispatch failed and the other two outcomes are successes.
BroadcastReturnedDespiteFailure ==
  /\ bc.returned
  /\ Len(bc.peers) = 3
  /\ bc.http = <<"failed", "ok", "ok">>
  /\ ~bc.response.results[1].success
  /\ bc.response.results[2].success
  /\ bc.response.results[3].success

\* C22 (as claimed, SpecDir): the reply to a refresh whose load failed
\* differs from the reply to a refresh whose load succeeded and found no
\* validator.
FailedLoadDistinguishable ==
  [][ \A failed \in SeedListResponses :
        (RefreshDoneWith(failed) /\ ~failed.ok)
          => \A empty \in SeedListResponses :
               (empty.ok /\ SelectSeq(empty.data, isValidator) = <<>>)
                 => refreshResponse(loadValidatorNodes(validatorNodes, failed).ret)
                      # refreshResponse(loadValidatorNodes(validatorNodes, empty).ret)
    ]_vars

\* C23 (SpecDir): GET /validators/ping/:address, for an address inside or
\* outside the directory and whatever the probe answers, leaves the
\* validator collection as it was.
AdHocPingKeepsCollection ==
  [][ \A address \in PingAddresses, resp \in ProbeResponses :
        CtlPingValidatorWith(address, resp) => validatorNodes' = validatorNodes
    ]_vars

\* C23 witness: an ad hoc ping has just reported "not responding" while
\* every record of a three-record collection is marked responding.
AdHocPingFailedOnRespondingDirectory ==
  /\ ev = Event("adHocPing", FALSE, "none")
  /\ Len(validatorNodes) = 3
  /\ \A i \in DOMAIN validatorNodes : validatorNodes[i].isResponding

RegistrationStatusSettles ==
  /\ []((ticksRegistering = 0 /\ initPc # "register")
          => p2p.registrationStatus \in {"NOT_REGISTERED", "REGISTERED", "FAILED"})
  /\ [][ /\ (p2p.registrationStatus # "NOT_REGISTERED"
               => p2p'.registrationStatus # "NOT_REGISTERED")
          /\ ((\/ ev'.name = "pingDone"
               \/ ev' = Event("connectDone", FALSE, "none")
               \/ ev' = Event("tickConnectDone", FALSE, "none")
               \/ (p2p.connected /\ ~p2p'.connected))
               => p2p'.registrationStatus = p2p.registrationStatus)
        ]_vars

\* C27 witness: a registration has failed with a network error, no
\* registration is in flight, and a ping of the ping timer has just failed
\* as well, taking connected to false: registrationStatus is FAILED.
RegistrationFailedThenPingFailed ==
  /\ ev.name = "pingDone"
  /\ p2p.lastPing = "failed"
  /\ ~p2p.connected
  /\ p2p.registrationStatus = "FAILED"
  /\ ticksRegistering = 0
  /\ initPc = "done"
  /\ p2p.reconnectIntervalRef = NULL

\* C25 (SpecBroadcast): a broadcast dispatches to the active peers of the
\* moment it starts; no step taken while it is in flight (a probe of a
\* health sweep, a refresh) changes that list, and the outcomes it returns
\* are one per peer of that list, with that peer's address, in that order.
BroadcastKeepsSnapshot ==
  /\ [][ /\ (StartBroadcast => bc'.peers = activeAddresses(validatorNodes))
          /\ (bc.active
               => /\ bc'.peers = bc.peers
                  /\ DOMAIN bc'.promises = DOMAIN bc.peers
                  /\ bc'.active \/ bc'.returned)
        ]_vars
  /\ [](bc.returned
          => /\ DOMAIN bc.response.results = DOMAIN bc.peers
             /\ \A i \in DOMAIN bc.peers :
                  bc.response.results[i].validatorAddress = bc.peers[i])

\* C25 witness: a broadcast to A, B, C has returned its three outcomes
\* although the directory's active peers changed while it was in flight.
OvertakenBroadcastReturned ==
  /\ bc.returned
  /\ bc.overtaken
  /\ bc.peers = <<"A", "B", "C">>
  /\ Len(bc.response.results) = 3
  /\ activeAddresses(validatorNodes) # bc.peers

\* C26 (SpecDir): once a load has replaced the collection during a health
\* sweep, the remaining probes of that sweep leave the collection as it
\* is; a successful refresh installs the validators of the seed node's
\* answer; so until the sweep has finished the collection is as a load
\* installed it (every lastSeen is the seed node's stamp).
LateProbesSpareNewCollection ==
  /\ [][ /\ \A i \in sweep.pending, resp \in ProbeResponses :
               (ProbeDoneWith(i, resp) /\ sweep.replaced)
                 => validatorNodes' = validatorNodes
          /\ \A answer \in SeedListResponses :
               (RefreshDoneWith(answer) /\ answer.ok)
                 => validatorNodes' = SelectSeq(answer.data, isValidator)
        ]_vars
  /\ [](sweep.replaced
          => \A i \in DOMAIN validatorNodes :
               validatorNodes[i].lastSeen = SeedStamp)

\* C26 witness: a sweep is in flight, a refresh has installed three
\* records during it, a probe of the sweep has ended since, and the clock
\* has moved on from the seed node's stamp.
ProbeEndedAfterReplacement ==
  /\ sweep.replaced
  /\ sweep.lateProbe
  /\ sweep.pending # {}
  /\ Len(validatorNodes) = 3
  /\ now > SeedStamp
====
